---- MODULE Spec2Model ----
(***************************************************************************)
(* vpe_sitter: the incremental parse controller of listen.py              *)
(* (InprogressParseOperation) together with the scheduler primitives it    *)
(* uses (vpe.call_soon, vpe.Timer) and the Tree-sitter parser it drives.   *)
(*                                                                         *)
(* Buffer content is abstracted to a version number: every host change     *)
(* produces a new version, and a snapshot (lines / code_bytes) is the      *)
(* version it was taken from.                                              *)
(***************************************************************************)
EXTENDS Integers, Sequences, FiniteSets, TLC

\* The number of buffer changes the host reports in one behaviour.
MaxEdits == 3

\* The number of subscribers that register a parse-complete callback.
MaxCallbacks == 2

\* The number of times the buffer is reloaded in one behaviour.
MaxReloads == 1

\* The largest number of lines the buffer of the byte-offset table has.
MaxLines == 3

\* The lines that buffer is made of, as sequences of code points: the empty
\* line and the line of U+00E9 and U+0061 (two bytes and one byte in UTF-8).
Lines == {<<>>, <<233, 97>>}

\* The largest number of lines of a highlight snapshot.
MaxRows == 2

\* The largest number of nodes the query captures in a tree.
MaxCaptures == 2

\* The largest number of characters of a text given to
\* build_byte_to_codeppoint_table.
MaxChars == 4

\* The characters such a text is made of: U+0061, U+00E9, U+20AC and
\* U+1F600 (one, two, three and four bytes in UTF-8).
Chars == {97, 233, 8364, 128512}

\* The number of buffers tree tracking is enabled for.
MaxBuffers == 2

\* The largest number of edits the host reports before the scheduler runs
\* start() (batch part).
MaxBatch == 2

\* The buffer's line count before the first edit of a batch.
BatchLines == 2

\* The largest number of ranges the two lists given to the range merger
\* have together.
MaxRanges == 3

\* SyntaxLineSpans.BLOCK_SIZE
BLOCK_SIZE == 50

\* TO_END_OF_LINE = 0x7fff_ffff
TO_END_OF_LINE == 2147483647

\* The lines of a highlight snapshot: "abcd" and "ab" with U+00E9 (four
\* bytes each).
SnapshotLines == {<<97, 98, 99, 100>>, <<97, 98, 233>>}

\* The nodes a query may capture, with byte columns: a node of row 0, one
\* nested in it, one that overlaps it in part, one that starts where it
\* starts and ends before it, and one that runs from row 0 into row 1.
Nodes ==
    {[name |-> "function", start_point |-> <<0, 0>>, end_point |-> <<0, 2>>],
     [name |-> "variable", start_point |-> <<0, 1>>, end_point |-> <<0, 2>>],
     [name |-> "string", start_point |-> <<0, 1>>, end_point |-> <<0, 4>>],
     [name |-> "keyword", start_point |-> <<0, 0>>, end_point |-> <<0, 1>>],
     [name |-> "comment", start_point |-> <<0, 2>>, end_point |-> <<1, 2>>]}

\* The changes the host reports to handle_changes, as (start_lidx, end_lidx,
\* added): a line inserted above row 0, row 0 deleted, row 1 replaced in
\* place.  end_lidx is the first line below the changed lines.
Changes == {<<0, 0, 1>>, <<0, 1, -1>>, <<1, 2, 0>>}

\* What tree.changed_ranges() may report: nothing, or rows 0..1.
RangeChoices == {<<>>, << <<0, 1>> >>}

\* InprogressParseOperation.tree before the first parse completes.
NoTree == [id |-> 0, ver |-> 0, mixed |-> FALSE, edited |-> 0]

\* The parser holds no partially completed parse.
Idle == -1

VARIABLES
    constructed,      \* Listener.__init__ has run (and called start())
    buf,              \* the buffer's current content (version)
    nedits,           \* number of edits handed to add_edit so far
    active,           \* InprogressParseOperation.active
    pending_changes,  \* InprogressParseOperation.pending_changes
    affected_lines,   \* InprogressParseOperation.affected_lines
    tree,             \* InprogressParseOperation.tree
    timer,            \* InprogressParseOperation.timer is not None
    lines,            \* InprogressParseOperation.lines (snapshot version)
    code_bytes,       \* InprogressParseOperation.code_bytes (snapshot version)
    timers,           \* vpe.Timer objects waiting to call _try_parse
    soon,             \* vpe.call_soon(self.start) requests not yet run
    parser,           \* Idle, or the input the parser's unfinished parse began on
    ntrees,           \* number of trees the parser has returned
    applied,          \* ids of the edits given to tree.edit, in call order
    calls,            \* engine calls made by the handler that ran last
    notes,            \* parse_done_callback argument lists, same handler
    callbacks,        \* len(Listener.parse_complete_callbacks)
    delivered,        \* <<subscriber, argument list>> of each subscriber
                      \* callback call, same handler
    seen,             \* per subscriber: the id of the tree that was stored
                      \* when its callback was last called
    snapshot,         \* SyntaxLineSpans._tree (as tree id) and ._lines
    nnotes,           \* number of parse_done_callback invocations so far
    late,             \* at the last completion with edits pending, the time
                      \* since the last clean tree plus the parse's duration
                      \* had reached the staleness threshold of the design
                      \* (the code measures no time and never reads this)
    nreloads,         \* number of buffer reloads so far
    text,             \* Listener.buf as a list of lines (byte-offset table
                      \* part; the controller part knows the buffer as buf)
    byte_offsets,     \* Listener.byte_offsets
    forwarded,        \* the edits handle_changes gave to add_edit, same
                      \* handler
    raised,           \* the exception that left the handler that ran last,
                      \* "" if none did
    cache,            \* the SyntaxLineSpans: _lines, _tree (None is id 0;
                      \* a tree carries the nodes the query captures in
                      \* it), _query is not None, _highlighted_blocks and
                      \* _highlights
    returned,         \* what the last __getitem__ returned (<<>> after
                      \* another handler)
    queried,          \* number of query.captures calls of the last handler
    asked,            \* <<index>> if the handler that ran last was
                      \* __getitem__(index), else <<>>
    stale,            \* history: the lines that were computed for the
                      \* previous tree object when set_snapshot replaced
                      \* it by another object with the same captures, for
                      \* the same lines
    appended,         \* history: per line, the spans that the capture loop
                      \* of _build_part_of_highlight_map appended, if the
                      \* handler that ran last computed a block, else <<>>
    mapped,           \* a text, a byte index and, once it was looked up,
                      \* build_byte_to_codeppoint_table(text)[index]
                      \* (index mapper part)
    setup,            \* the plugin's setup (setup part): vim's encoding,
                      \* the buffers' filetypes and 'tree-sitter' stores,
                      \* parsers._filetype_to_language, the Listeners
                      \* and change subscriptions created, and what the
                      \* last call of treesit_current_buffer or
                      \* provide_parser returned or raised
    change,           \* the (start_lidx, end_lidx, added) handle_changes was
                      \* called with, if the handler that ran last was
                      \* handle_changes, else <<>>
    observed,         \* what each subscriber callback call of the same
                      \* handler found when it was called: the controller's
                      \* tree and active, the highlight snapshot's tree
    replaced,         \* history: the rows replaced in place by edits that
                      \* reached add_edit while the controller was idle with
                      \* a tree, since the last parse completion and the
                      \* last change of the line count
    merged            \* two lists of half-open line ranges and, once they
                      \* were merged, the merged list (range merger part)

vars == <<constructed, buf, nedits, active, pending_changes, affected_lines,
          tree, timer, lines, code_bytes, timers, soon, parser, ntrees,
          applied, calls, notes, nnotes, late, callbacks, delivered, seen,
          snapshot, change, observed, replaced, nreloads, text, byte_offsets,
          forwarded, raised, cache, returned, queried, asked, stale,
          appended, mapped, setup, merged>>

\* The state of the highlight cache part.
cache_vars == <<cache, returned, queried, asked, stale, appended>>

\* The state of the byte-offset table part.
table_vars == <<text, byte_offsets, forwarded, raised>>

\* The state of the index mapper part, of the setup part and of the range
\* merger part.
other_vars == <<mapped, setup, merged>>

Max(a, b) == IF a >= b THEN a ELSE b

\* The controller, scheduler and engine state as one value, so that the
\* methods can be composed the way the code calls them.
Cur ==
    [active |-> active, pending_changes |-> pending_changes,
     affected_lines |-> affected_lines, tree |-> tree, timer |-> timer,
     lines |-> lines, code_bytes |-> code_bytes, timers |-> timers,
     soon |-> soon, parser |-> parser, ntrees |-> ntrees,
     applied |-> applied, calls |-> <<>>, notes |-> <<>>, nnotes |-> nnotes,
     late |-> late, callbacks |-> callbacks, delivered |-> <<>>,
     seen |-> seen, snapshot |-> snapshot, change |-> <<>>,
     observed |-> <<>>]

Commit(c) ==
    /\ soon' = c.soon
    /\ timers' = c.timers
    /\ ntrees' = c.ntrees
    /\ active' = c.active
    /\ pending_changes' = c.pending_changes
    /\ affected_lines' = c.affected_lines
    /\ tree' = c.tree
    /\ timer' = c.timer
    /\ lines' = c.lines
    /\ code_bytes' = c.code_bytes
    /\ parser' = c.parser
    /\ applied' = c.applied
    /\ calls' = c.calls
    /\ notes' = c.notes
    /\ nnotes' = c.nnotes
    /\ late' = c.late
    /\ callbacks' = c.callbacks
    /\ delivered' = c.delivered
    /\ seen' = c.seen
    /\ snapshot' = c.snapshot
    /\ change' = c.change
    /\ observed' = c.observed
    /\ UNCHANGED table_vars
    /\ UNCHANGED cache_vars
    /\ UNCHANGED other_vars

\* Mutant of call_soon_start: the request is lost.
call_soon_start_dropped(c) == c

\* vpe.call_soon(self.start): one more deferred call of start().
call_soon_start(c) == [c EXCEPT !.soon = @ + 1]

\* _schedule_reparse: a new 10 ms timer whose callback is _try_parse.
schedule_reparse(c) == [c EXCEPT !.timer = TRUE, !.timers = @ + 1]

\* SyntaxLineSpans.set_snapshot(lines, query, tree): a tree that is not the
\* stored one replaces the snapshot.
set_snapshot(c) ==
    CHOOSE set \in
        {IF v.snapshot.tree # v.tree.id
         THEN [v EXCEPT !.snapshot = [tree |-> v.tree.id, lines |-> v.lines]]
         ELSE v : v \in {c}} : TRUE

\* A subscriber's callback is called with the one argument ranges.
call_callback(c, i, ranges) ==
    CHOOSE called \in
        {[v EXCEPT !.delivered = Append(@, <<i, <<ranges>> >>),
                   !.seen[i] = v.tree.id,
                   !.observed = Append(@, [tree |-> v.tree.id,
                                           active |-> v.active,
                                           snapshot |-> v.snapshot.tree])]
         : v \in {c}} : TRUE

RECURSIVE call_callbacks(_, _, _)
\* for callback in self.parse_complete_callbacks: callback(affected_lines)
call_callbacks(c, i, ranges) ==
    CHOOSE called \in
        {IF i > v.callbacks THEN v
         ELSE call_callbacks(call_callback(v, i, ranges), i + 1, ranges)
         : v \in {c}} : TRUE

\* Mutant of handle_parse_complete: the subscribers are not called.
handle_parse_complete_silent(c, ranges) == set_snapshot(c)

\* Mutant of handle_parse_complete: the subscribers are called before the
\* highlight snapshot is switched.
handle_parse_complete_early(c, ranges) ==
    set_snapshot(call_callbacks(c, 1, ranges))

\* Listener.handle_parse_complete(affected_lines)
handle_parse_complete(c, ranges) ==
    call_callbacks(set_snapshot(c), 1, ranges)

\* Mutant of parse_done_callback: the callback is called twice.
parse_done_callback_twice(c) ==
    handle_parse_complete(
        handle_parse_complete(
            [c EXCEPT !.notes = @ \o << <<c.affected_lines>>,
                                       <<c.affected_lines>> >>,
                      !.nnotes = @ + 2],
            c.affected_lines),
        c.affected_lines)

\* self.parse_done_callback(self.affected_lines): the Listener's
\* handle_parse_complete is called with the affected lines as its only
\* argument.
parse_done_callback(c) ==
    handle_parse_complete(
        [c EXCEPT !.notes = Append(@, <<c.affected_lines>>), !.nnotes = @ + 1],
        c.affected_lines)

\* Mutant of add_parse_complete_callback: active is not tested.
add_parse_complete_callback_eager(c) ==
    \E added \in {[c EXCEPT !.callbacks = @ + 1, !.seen = Append(@, 0)]} :
        Commit(IF added.tree # NoTree
               THEN call_callback(added, added.callbacks, <<>>)
               ELSE added)

\* Listener.add_parse_complete_callback(callback), as a handler.
add_parse_complete_callback(c) ==
    \E added \in {[c EXCEPT !.callbacks = @ + 1, !.seen = Append(@, 0)]} :
        Commit(IF added.tree # NoTree /\ ~added.active
               THEN call_callback(added, added.callbacks, <<>>)
               ELSE added)

\* Mutant of adjust_range: the moved range is not clamped at line 0.
adjust_range_unclamped(r, start_lidx, old_end_lidx, delta) ==
    LET a == r[1]
        b == r[2]
    IN  IF b <= start_lidx THEN r
        ELSE IF old_end_lidx <= a THEN <<a + delta, b + delta>>
        ELSE IF delta < 0 THEN <<a + delta, b>>
        ELSE <<a, b + delta>>

\* update_changed: one range of affected_lines moved for an edit.
adjust_range(r, start_lidx, old_end_lidx, delta) ==
    LET a == r[1]
        b == r[2]
    IN  IF b <= start_lidx THEN r
        ELSE IF old_end_lidx <= a
             THEN <<Max(0, a + delta), Max(b + delta, 0)>>
        ELSE IF delta < 0
             THEN <<Max(0, a + delta), Max(b, 0)>>
        ELSE <<Max(0, a), Max(b + delta, 0)>>

\* start.update_changed(start_point, old_end_point, new_end_point)
update_changed(aff, edit) ==
    LET start_lidx == edit.start_row
        new_end_lidx == edit.new_end_row
        old_end_lidx == edit.old_end_row
        delta == old_end_lidx - new_end_lidx
        moved == IF delta # 0
                 THEN [i \in 1..Len(aff) |->
                          adjust_range(aff[i], start_lidx, old_end_lidx, delta)]
                 ELSE aff
    IN  Append(moved, <<start_lidx, new_end_lidx>>)

\* The body of start()'s loop for one pending edit: tree.edit(**edit) and
\* update_changed(...).
apply_edit(c, edit) ==
    [c EXCEPT !.tree.edited = @ + 1,
              !.applied = Append(@, edit.id),
              !.calls = Append(@, <<"edit", edit.id>>),
              !.affected_lines = update_changed(@, edit)]

RECURSIVE apply_edits_reversed(_, _, _)
\* Mutant of apply_edits: the pending edits are applied last to first.
apply_edits_reversed(c, edits, i) ==
    IF i > Len(edits) THEN c
    ELSE apply_edits_reversed(apply_edit(c, edits[Len(edits) + 1 - i]),
                              edits, i + 1)

RECURSIVE apply_edits(_, _, _)
\* for edit in self.pending_changes: ...  (from the i-th edit on)
apply_edits(c, edits, i) ==
    IF i > Len(edits) THEN c
    ELSE apply_edits(apply_edit(c, edits[i]), edits, i + 1)

\* The parser outcomes that can differ when _try_parse is called in state c:
\* <<outcome, ranges, mix, slow>>.  outcome: the parser times out ("timeout")
\* or returns a tree ("tree").  ranges: what changed_ranges reports, called
\* only when a tree is stored.  mix: a parse that is resumed on other bytes
\* than it began on may yield a tree that mixes the two inputs.  slow: the
\* time condition recorded in late, which matters only with edits pending.
Outcomes(c) ==
    {<<"timeout", <<>>, FALSE, FALSE>>} \cup
    ({"tree"}
     \X (IF c.tree # NoTree THEN RangeChoices ELSE {<<>>})
     \X (IF c.parser \in {Idle, c.code_bytes} THEN {FALSE} ELSE BOOLEAN)
     \X (IF c.pending_changes # <<>> THEN BOOLEAN ELSE {FALSE}))

\* _try_parse, the except branch: the parse stays unfinished in the parser
\* and a retry is scheduled.
timed_out(c) ==
    schedule_reparse([c EXCEPT !.parser = IF @ = Idle THEN c.code_bytes ELSE @])

\* _try_parse, the else branch up to the callback: the affected lines get
\* the changed ranges, the tree is stored and the run is over.
parsed(c, o) ==
    [c EXCEPT !.affected_lines =
                  @ \o (IF c.tree # NoTree THEN o[2] ELSE <<>>),
              !.tree = [id |-> c.ntrees + 1, ver |-> c.code_bytes,
                        mixed |-> o[3], edited |-> 0],
              !.active = FALSE,
              !.timer = FALSE,
              !.parser = Idle,
              !.ntrees = @ + 1,
              !.late = o[4]]

\* Mutant of try_parse: a completion with edits pending requests no start().
try_parse_no_follow_up(c, kinds) ==
    \E o \in Outcomes(c) :
        /\ o[1] \in kinds
        /\ \E called \in {[c EXCEPT !.calls =
                                  Append(@, <<"parse", c.code_bytes>>)]} :
               IF o[1] = "timeout"
               THEN Commit(timed_out(called))
               ELSE \E stored \in {parsed(called, o)} :
                    \E notified \in {parse_done_callback(stored)} :
                        Commit(notified)

\* _try_parse as a handler step whose parser outcome is one of kinds.
try_parse(c, kinds) ==
    \E o \in Outcomes(c) :
        /\ o[1] \in kinds
        /\ \E called \in {[c EXCEPT !.calls =
                                  Append(@, <<"parse", c.code_bytes>>)]} :
               IF o[1] = "timeout"
               THEN Commit(timed_out(called))
               ELSE \E stored \in {parsed(called, o)} :
                    \E notified \in {parse_done_callback(stored)} :
                        Commit(IF notified.pending_changes # <<>>
                               THEN call_soon_start(notified)
                               ELSE notified)

\* start() up to the call of _try_parse: b is the buffer content read by
\* list(self.listener.buf).
start_run(c, b) ==
    [apply_edits([c EXCEPT !.affected_lines = <<>>],
                 IF c.tree # NoTree THEN c.pending_changes ELSE <<>>, 1)
     EXCEPT !.pending_changes = <<>>,
            !.active = TRUE,
            !.lines = b,
            !.code_bytes = b]

\* start() as a handler.
start(c, b) ==
    \E snapped \in {start_run(c, b)} : try_parse(snapped, {"timeout", "tree"})

\* Mutant of add_edit: the test of active is inverted.
add_edit_inverted(c, edit) ==
    \E queued \in {[c EXCEPT !.pending_changes = Append(@, edit)]} :
        Commit(IF queued.active THEN call_soon_start(queued) ELSE queued)

\* Mutant of add_edit: an idle controller's subscribers are called before
\* the start is requested.
add_edit_notifying(c, edit) ==
    \E queued \in {[c EXCEPT !.pending_changes = Append(@, edit)]} :
        Commit(IF ~queued.active
               THEN call_soon_start(call_callbacks(queued, 1, <<>>))
               ELSE queued)

\* add_edit(edit) as a handler.
add_edit(c, edit) ==
    \E queued \in {[c EXCEPT !.pending_changes = Append(@, edit)]} :
        Commit(IF ~queued.active THEN call_soon_start(queued) ELSE queued)

ControllerInit ==
    /\ constructed = FALSE
    /\ buf = 0
    /\ nedits = 0
    /\ active = FALSE
    /\ pending_changes = <<>>
    /\ affected_lines = <<>>
    /\ tree = NoTree
    /\ timer = FALSE
    /\ lines = 0
    /\ code_bytes = 0
    /\ timers = 0
    /\ soon = 0
    /\ parser = Idle
    /\ ntrees = 0
    /\ applied = <<>>
    /\ calls = <<>>
    /\ notes = <<>>
    /\ nnotes = 0
    /\ late = FALSE
    /\ callbacks = 0
    /\ delivered = <<>>
    /\ seen = <<>>
    /\ snapshot = [tree |-> 0, lines |-> 0]
    /\ change = <<>>
    /\ observed = <<>>
    /\ replaced = {}
    /\ nreloads = 0

\* SyntaxLineSpans.__init__
NewCache ==
    [lines |-> <<>>, tree |-> [id |-> 0, captures |-> <<>>], query |-> FALSE,
     blocks |-> {}, highlights |-> <<>>]

CacheInit ==
    /\ cache = NewCache
    /\ returned = <<>>
    /\ queried = 0
    /\ asked = <<>>
    /\ stale = {}
    /\ appended = <<>>

\* The buffers of the setup part.
Bufs == 1..MaxBuffers

\* The filetypes of the setup part: the one with a registered parser
\* module and one without.
Filetypes == {"python", "vim"}

\* The setup part before any call: _filetype_to_language is empty and no
\* buffer has a 'tree-sitter' store.
NewSetup ==
    [encoding |-> "utf-8",
     module |-> "ok",
     filetype |-> [b \in Bufs |-> "python"],
     languages |-> <<>>,
     stores |-> [b \in Bufs |-> "none"],
     listeners |-> [b \in Bufs |-> 0],
     subscriptions |-> [b \in Bufs |-> 0],
     called |-> "",
     buffer |-> 0,
     asked_filetype |-> "",
     outcome |-> ""]

\* No index has been looked up in an index mapper.
NoProbe == [text |-> <<>>, index |-> 0, result |-> -1]

\* No lists have been given to the range merger.
NoMerge == [a |-> <<>>, b |-> <<>>, done |-> FALSE, result |-> <<>>]

\* The controller, table, cache and range merger parts after construction.
PartsInit ==
    /\ ControllerInit
    /\ CacheInit
    /\ merged = NoMerge
    /\ text = << <<>> >>
    /\ byte_offsets = <<0, 1>>
    /\ forwarded = <<>>
    /\ raised = ""

Init ==
    /\ PartsInit
    /\ mapped = NoProbe
    /\ setup = NewSetup

\* The start, old end and new end points of the edit handle_changes builds:
\* their rows (the columns are all 0).
edit_rows(start_lidx, end_lidx, added) ==
    [start_row |-> start_lidx, old_end_row |-> end_lidx,
     new_end_row |-> end_lidx + added]

\* The history replaced after a step: a parse completion empties it,
\* otherwise it becomes rows.
Track(rows) == replaced' = IF ntrees' # ntrees THEN {} ELSE rows

\* Listener.__init__ ends by calling in_progress_parse_operation.start().
ListenerInit ==
    /\ ~constructed
    /\ constructed' = TRUE
    /\ UNCHANGED <<buf, nedits, nreloads>>
    /\ \E c \in {Cur} : start(c, buf)
    /\ Track(replaced)

\* The host changes the buffer and Listener.handle_changes hands the edit to
\* add_edit.
AddEdit ==
    /\ constructed
    /\ nedits < MaxEdits
    /\ buf' = buf + 1
    /\ nedits' = nedits + 1
    /\ UNCHANGED <<constructed, nreloads>>
    /\ \E ch \in Changes :
           /\ \E c \in {[Cur EXCEPT !.change = ch]} :
                  add_edit(c, [id |-> nedits + 1] @@
                              edit_rows(ch[1], ch[2], ch[3]))
           /\ Track(IF ch[3] # 0 THEN {}
                    ELSE IF ch[2] = ch[1] + 1 /\ tree # NoTree /\ ~active
                         THEN replaced \cup {ch[1]}
                    ELSE replaced)

\* A subscriber registers with Listener.add_parse_complete_callback.
AddCallback ==
    /\ constructed
    /\ callbacks < MaxCallbacks
    /\ UNCHANGED <<constructed, buf, nedits, nreloads>>
    /\ \E c \in {Cur} : add_parse_complete_callback(c)
    /\ Track(replaced)

\* The scheduler runs one deferred start().
RunStart ==
    /\ soon > 0
    /\ UNCHANGED <<constructed, buf, nedits, nreloads>>
    /\ \E c \in {[Cur EXCEPT !.soon = @ - 1]} : start(c, buf)
    /\ Track(replaced)

\* A retry timer fires and calls _try_parse, with the given parser outcome.
TimerFireWith(outcome) ==
    /\ timers > 0
    /\ UNCHANGED <<constructed, buf, nedits, nreloads>>
    /\ \E c \in {[Cur EXCEPT !.timers = @ - 1]} : try_parse(c, {outcome})
    /\ Track(replaced)

\* A retry timer fires.
TimerFire == \E outcome \in {"timeout", "tree"} : TimerFireWith(outcome)

Next == ListenerInit \/ AddEdit \/ AddCallback \/ RunStart \/ TimerFire

Spec == Init /\ [][Next]_vars

\* The host runs every deferred call and every timer it was given, and the
\* parser, resuming where it stopped, does not time out for ever.
FairSpec ==
    /\ Spec
    /\ WF_vars(ListenerInit)
    /\ WF_vars(RunStart)
    /\ WF_vars(TimerFireWith("tree"))

\* start_clean(): the retry timer the controller holds is cancelled, the
\* pending edits are discarded, active and the tree are cleared, and
\* start() is called.
start_clean(c, b) ==
    \E reset \in {[c EXCEPT !.timers = IF c.timer THEN @ - 1 ELSE @,
                            !.timer = FALSE,
                            !.pending_changes = <<>>,
                            !.active = FALSE,
                            !.tree = NoTree]} :
        start(reset, b)

\* The buffer's content is replaced wholesale and handle_buffer_reload
\* forwards to the controller's start_clean().
BufferReload ==
    /\ constructed
    /\ nreloads < MaxReloads
    /\ nreloads' = nreloads + 1
    /\ buf' = buf + 1
    /\ UNCHANGED <<constructed, nedits>>
    /\ \E c \in {Cur} : start_clean(c, buf + 1)
    /\ Track({})

ReloadNext == Next \/ BufferReload

\* The listener and controller with buffer reloads.
ReloadSpec == Init /\ [][ReloadNext]_vars

(***************************************************************************)
(* A batch of edits: the host reports up to MaxBatch changes, of any       *)
(* lines of the buffer, while the controller is idle with a tree and one   *)
(* subscriber, and the scheduler then runs the start() that applies them.  *)
(***************************************************************************)

RECURSIVE line_count_after(_, _)
\* The buffer's line count after the edits from the i-th on were made to a
\* buffer of n lines.
line_count_after(n, edits) ==
    IF edits = <<>> THEN n
    ELSE line_count_after(n + Head(edits).new_end_row - Head(edits).old_end_row,
                          Tail(edits))

\* The changes (start_lidx, end_lidx, added) the host can report for a
\* buffer of n lines that keeps between 1 and MaxLines lines: the lines
\* start_lidx .. end_lidx - 1 are replaced by end_lidx - start_lidx + added
\* lines.
BatchChanges(n) ==
    {ch \in (0..n) \X (0..n) \X (-n..MaxLines) :
        /\ ch[1] <= ch[2]
        /\ ch[2] - ch[1] + ch[3] >= 0
        /\ (ch[1] < ch[2] \/ ch[3] > 0)
        /\ n + ch[3] \in 1..MaxLines}

\* The controller after Listener.__init__, whose parse has returned the
\* first tree, and one add_parse_complete_callback.
BatchInit ==
    /\ constructed = TRUE
    /\ buf = 0
    /\ nedits = 0
    /\ active = FALSE
    /\ pending_changes = <<>>
    /\ affected_lines = <<>>
    /\ tree = [id |-> 1, ver |-> 0, mixed |-> FALSE, edited |-> 0]
    /\ timer = FALSE
    /\ lines = 0
    /\ code_bytes = 0
    /\ timers = 0
    /\ soon = 0
    /\ parser = Idle
    /\ ntrees = 1
    /\ applied = <<>>
    /\ calls = <<>>
    /\ notes = <<>>
    /\ nnotes = 1
    /\ late = FALSE
    /\ callbacks = 1
    /\ delivered = << <<1, << <<>> >> >> >>
    /\ seen = <<1>>
    /\ snapshot = [tree |-> 1, lines |-> 0]
    /\ change = <<>>
    /\ observed = <<[tree |-> 1, active |-> FALSE, snapshot |-> 1]>>
    /\ replaced = {}
    /\ nreloads = 0
    /\ CacheInit
    /\ text = << <<>> >>
    /\ byte_offsets = <<0, 1>>
    /\ forwarded = <<>>
    /\ raised = ""
    /\ mapped = NoProbe
    /\ setup = NewSetup
    /\ merged = NoMerge

\* The host changes the buffer before the scheduler has run a start(), and
\* Listener.handle_changes hands the edit to add_edit.
AddBatchEdit ==
    /\ nedits < MaxBatch
    /\ soon = nedits
    /\ buf' = buf + 1
    /\ nedits' = nedits + 1
    /\ UNCHANGED <<constructed, nreloads>>
    /\ \E ch \in BatchChanges(line_count_after(BatchLines, pending_changes)) :
           /\ \E c \in {[Cur EXCEPT !.change = ch]} :
                  add_edit(c, [id |-> nedits + 1] @@
                              edit_rows(ch[1], ch[2], ch[3]))
           /\ Track(IF ch[3] # 0 THEN {}
                    ELSE IF ch[2] = ch[1] + 1 /\ tree # NoTree /\ ~active
                         THEN replaced \cup {ch[1]}
                    ELSE replaced)

\* The scheduler runs the deferred start() that finds the edits pending.
ApplyBatch == pending_changes # <<>> /\ RunStart

BatchNext == AddBatchEdit \/ ApplyBatch

\* The controller for one batch of edits.
BatchSpec == BatchInit /\ [][BatchNext]_vars

(***************************************************************************)
(* Listener.byte_offsets and handle_changes' edit.  The controller behind  *)
(* add_edit is the subject of Spec; here the call is recorded in           *)
(* forwarded.                                                              *)
(***************************************************************************)

Min(a, b) == IF a <= b THEN a ELSE b

\* The number of bytes of a code point's UTF-8 encoding.
utf8_width(ch) ==
    IF ch < 128 THEN 1 ELSE IF ch < 2048 THEN 2 ELSE IF ch < 65536 THEN 3 ELSE 4

RECURSIVE utf8_len(_)
\* len(line.encode('utf-8'))
utf8_len(line) ==
    IF line = <<>> THEN 0 ELSE utf8_width(Head(line)) + utf8_len(Tail(line))

RECURSIVE accumulate(_, _)
\* list(itertools.accumulate(xs, initial=initial)): the running sums.
accumulate(xs, initial) ==
    IF xs = <<>> THEN <<initial>>
    ELSE <<initial>> \o accumulate(Tail(xs), initial + Head(xs))

\* [len(line.encode('utf-8')) + 1 for line in b]
line_sizes(b) == [i \in 1..Len(b) |-> utf8_len(b[i]) + 1]

\* Python's seq[i] raises no IndexError.
InRange(seq, i) == -Len(seq) <= i /\ i < Len(seq)

\* Python's seq[i], for i in range.
Item(seq, i) == IF i >= 0 THEN seq[i + 1] ELSE seq[Len(seq) + i + 1]

\* The number of items before Python's seq[i:].
SliceStart(seq, i) == IF i < 0 THEN Max(Len(seq) + i, 0) ELSE Min(i, Len(seq))

\* Python's seq[i:].
SliceFrom(seq, i) == SubSeq(seq, SliceStart(seq, i) + 1, Len(seq))

\* Mutant of recompute: the running sum is not seeded with the old offset
\* of the start line.
recompute_unseeded(offsets, b, start_lidx) ==
    SubSeq(offsets, 1, SliceStart(offsets, start_lidx))
    \o accumulate(line_sizes(SliceFrom(b, start_lidx)), 0)

\* handle_changes: self.byte_offsets[start_lidx:] = list(accumulate(...,
\* initial=start_offset)), b being the buffer's current lines.
recompute(offsets, b, start_lidx) ==
    SubSeq(offsets, 1, SliceStart(offsets, start_lidx))
    \o accumulate(line_sizes(SliceFrom(b, start_lidx)),
                  Item(offsets, start_lidx))

\* Mutant of build_edit: the new end byte is read from the table as it was
\* before it was recomputed.
build_edit_stale(old, new, start_lidx, end_lidx, added) ==
    [start_byte |-> Item(old, start_lidx),
     old_end_byte |-> Item(old, end_lidx),
     new_end_byte |-> Item(old, Min(end_lidx + added, Len(old) - 1)),
     start_point |-> <<start_lidx, 0>>,
     old_end_point |-> <<end_lidx, 0>>,
     new_end_point |-> <<end_lidx + added, 0>>]

\* Mutant of build_edit: a change that starts one past the last known line
\* is made to start at the line before.
build_edit_previous_line(old, new, start_lidx, end_lidx, added) ==
    [start_byte |-> Item(old, IF start_lidx = Len(old) - 1 /\ start_lidx > 0
                              THEN start_lidx - 1 ELSE start_lidx),
     old_end_byte |-> Item(old, end_lidx),
     new_end_byte |-> Item(new, end_lidx + added),
     start_point |-> <<IF start_lidx = Len(old) - 1 /\ start_lidx > 0
                       THEN start_lidx - 1 ELSE start_lidx, 0>>,
     old_end_point |-> <<end_lidx, 0>>,
     new_end_point |-> <<end_lidx + added, 0>>]

\* handle_changes: the SyntaxTreeEdit, old and new being byte_offsets before
\* and after it was recomputed.
build_edit(old, new, start_lidx, end_lidx, added) ==
    [start_byte |-> Item(old, start_lidx),
     old_end_byte |-> Item(old, end_lidx),
     new_end_byte |-> Item(new, end_lidx + added),
     start_point |-> <<start_lidx, 0>>,
     old_end_point |-> <<end_lidx, 0>>,
     new_end_point |-> <<end_lidx + added, 0>>]

\* Listener.handle_changes(_buf, start_lidx, end_lidx, added, ops) as a
\* handler, b being the buffer's lines when it is called.
handle_changes(b, start_lidx, end_lidx, added) ==
    /\ change' = <<start_lidx, end_lidx, added>>
    /\ IF ~InRange(byte_offsets, start_lidx) \/ ~InRange(byte_offsets, end_lidx)
       THEN /\ raised' = "IndexError"
            /\ forwarded' = <<>>
            /\ UNCHANGED byte_offsets
       ELSE \E new \in {recompute(byte_offsets, b, start_lidx)} :
                /\ byte_offsets' = new
                /\ IF ~InRange(new, end_lidx + added)
                   THEN raised' = "IndexError" /\ forwarded' = <<>>
                   ELSE /\ raised' = ""
                        /\ forwarded' = <<build_edit(byte_offsets, new,
                                                     start_lidx, end_lidx,
                                                     added)>>

\* The contents of a buffer: at least one line, at most MaxLines.
Buffers == UNION {[1..n -> Lines] : n \in 1..MaxLines}

\* The sequences of lines a change puts in.
Insertions == {<<>>} \cup Buffers

\* The controller's variables, which no step of the table part changes.
controller_vars ==
    <<constructed, buf, nedits, active, pending_changes, affected_lines, tree,
      timer, lines, code_bytes, timers, soon, parser, ntrees, applied, calls,
      notes, nnotes, late, callbacks, delivered, seen, snapshot, observed,
      replaced, nreloads>>

\* Listener.__init__: the table is the running sum of the line sizes.
TableInit ==
    /\ ControllerInit
    /\ CacheInit
    /\ mapped = NoProbe
    /\ setup = NewSetup
    /\ merged = NoMerge
    /\ text \in Buffers
    /\ byte_offsets = accumulate(line_sizes(text), 0)
    /\ forwarded = <<>>
    /\ raised = ""

\* The host replaces the lines start_lidx .. end_lidx - 1 by the lines ins
\* (an insertion if there are none to replace, a deletion if ins is empty)
\* and reports the change to handle_changes.
HostChange ==
    \E start_lidx \in 0..Len(text), ins \in Insertions :
    \E end_lidx \in start_lidx..Len(text) :
    \E b \in {SubSeq(text, 1, start_lidx) \o ins
               \o SubSeq(text, end_lidx + 1, Len(text))} :
        /\ end_lidx - start_lidx + Len(ins) > 0
        /\ Len(b) \in 1..MaxLines
        /\ text' = b
        /\ handle_changes(b, start_lidx, end_lidx,
                          Len(ins) - (end_lidx - start_lidx))
        /\ UNCHANGED controller_vars
        /\ UNCHANGED cache_vars
        /\ UNCHANGED other_vars

\* The buffer is replaced behind the listener's back: no handler runs.
OutOfBandChange ==
    /\ text' \in Buffers \ {text}
    /\ change' = <<>>
    /\ forwarded' = <<>>
    /\ raised' = ""
    /\ UNCHANGED byte_offsets
    /\ UNCHANGED controller_vars
    /\ UNCHANGED cache_vars
    /\ UNCHANGED other_vars

\* The host reports a change that need not agree with the buffer or with
\* the table.
StrayReport ==
    \E start_lidx \in 0..MaxLines + 1 :
    \E end_lidx \in start_lidx..MaxLines + 1 :
    \E added \in (start_lidx - end_lidx)..MaxLines :
        /\ UNCHANGED text
        /\ handle_changes(text, start_lidx, end_lidx, added)
        /\ UNCHANGED controller_vars
        /\ UNCHANGED cache_vars
        /\ UNCHANGED other_vars

\* The table under accurately reported changes.
TableSpec == TableInit /\ [][HostChange]_vars

StrayNext == HostChange \/ OutOfBandChange \/ StrayReport

\* The table under any report.
StraySpec == TableInit /\ [][StrayNext]_vars

(***************************************************************************)
(* SyntaxLineSpans, the lazily filled map from line index to highlights.   *)
(* _highlights is a function whose domain is the dict's keys.              *)
(***************************************************************************)

RECURSIVE codepoint_offsets(_, _)
\* build_byte_to_codeppoint_table's loop: for each character of text from
\* char_offset on, its offset once per byte of its encoding.
codepoint_offsets(chars, char_offset) ==
    IF chars = <<>> THEN <<>>
    ELSE [i \in 1..utf8_width(Head(chars)) |-> char_offset]
         \o codepoint_offsets(Tail(chars), char_offset + 1)

\* IndexMapper.__getitem__ over base_map (index + base_map[-1] -
\* len(base_map) + 1 past the end; Python's integers do not overflow, the
\* sum is taken in an order that stays below 2^31).
index_mapper(base_map, index) ==
    IF InRange(base_map, index) THEN Item(base_map, index)
    ELSE index - Len(base_map) + base_map[Len(base_map)] + 1

\* Mutant of mapper: the identity mapper for every text.
mapper_identity(line, index) == index

\* build_byte_to_codeppoint_table(text)[index]: the identity for an empty
\* or all-ASCII text.
mapper(line, index) ==
    IF line = <<>> \/ utf8_len(line) = Len(line) THEN index
    ELSE index_mapper(codepoint_offsets(line, 0), index)

\* realign_highlight(highlight) for the line's text.
realign_highlight(line, highlight) ==
    <<mapper(line, highlight[1]), mapper(line, highlight[2]), highlight[3]>>

\* Mutant of node_highlights: a node of several rows gets a span on its
\* first row only.
node_highlights_first_only(node, row) ==
    IF row = node.start_point[1]
    THEN << <<node.start_point[2],
              IF node.start_point[1] = node.end_point[1]
              THEN node.end_point[2] ELSE TO_END_OF_LINE,
              node.name>> >>
    ELSE <<>>

\* What a captured node appends to the highlights of row.
node_highlights(node, row) ==
    LET node_start_row == node.start_point[1]
        node_start_column == node.start_point[2]
        node_end_row == node.end_point[1]
        node_end_column == node.end_point[2]
    IN  IF node_start_row = node_end_row
        THEN IF row = node_start_row
             THEN << <<node_start_column, node_end_column, node.name>> >>
             ELSE <<>>
        ELSE IF row = node_start_row
             THEN << <<node_start_column, TO_END_OF_LINE, node.name>> >>
        ELSE IF node_start_row < row /\ row < node_end_row
             THEN << <<0, TO_END_OF_LINE, node.name>> >>
        ELSE IF row = node_end_row
             THEN << <<0, node_end_column, node.name>> >>
        ELSE <<>>

\* The highlights dict after one node's highlights were appended, for the
\* rows below line_count.
add_node(highlights, node, line_count) ==
    LET rows == {r \in 0..line_count - 1 : node_highlights(node, r) # <<>>}
    IN  [r \in DOMAIN highlights \cup rows |->
            (IF r \in DOMAIN highlights THEN highlights[r] ELSE <<>>)
            \o node_highlights(node, r)]

RECURSIVE add_nodes(_, _, _, _)
\* for highlight_name, nodes in captures.items(): for node in nodes: ...
add_nodes(highlights, nodes, i, line_count) ==
    IF i > Len(nodes) THEN highlights
    ELSE add_nodes(add_node(highlights, nodes[i], line_count), nodes, i + 1,
                   line_count)

\* Point a comes before point b.
PointLess(a, b) == a[1] < b[1] \/ (a[1] = b[1] /\ a[2] < b[2])

\* self._query.captures(self._tree.root_node) after set_point_range: the
\* captured nodes that intersect the range, in the order of the result.
captures_in(syntax_tree, start_point, end_point) ==
    SelectSeq(syntax_tree.captures,
              LAMBDA node : /\ PointLess(node.start_point, end_point)
                            /\ PointLess(start_point, node.end_point))

\* The sort key h[:2] of h is at most that of g.
KeyLessEq(h, g) == h[1] < g[1] \/ (h[1] = g[1] /\ h[2] <= g[2])

RECURSIVE insert_sorted(_, _)
\* h put into a sorted list after the items whose key is not larger.
insert_sorted(sorted, h) ==
    IF sorted = <<>> THEN <<h>>
    ELSE IF KeyLessEq(Head(sorted), h)
         THEN <<Head(sorted)>> \o insert_sorted(Tail(sorted), h)
    ELSE <<h>> \o sorted

RECURSIVE sort_highlights(_, _, _)
\* list.sort(key=lambda h: h[:2]), a stable sort: the items from the i-th
\* on put into sorted.
sort_highlights(hs, i, sorted) ==
    IF i > Len(hs) THEN sorted
    ELSE sort_highlights(hs, i + 1, insert_sorted(sorted, hs[i]))

RECURSIVE keep_all(_, _, _)
\* Mutant of remove_obscured: nothing is removed.
keep_all(hs, i, new) ==
    IF i = 0 THEN new ELSE keep_all(hs, i - 1, Append(new, hs[i]))

RECURSIVE remove_obscured_forward(_, _, _)
\* Mutant of remove_obscured: the list is processed from first to last.
remove_obscured_forward(hs, i, new) ==
    IF i = 0 THEN new
    ELSE remove_obscured_forward(
             hs, i - 1,
             IF \E k \in 1..Len(new) :
                    /\ new[k][1] <= hs[Len(hs) + 1 - i][1]
                    /\ hs[Len(hs) + 1 - i][1] <= new[k][2]
                    /\ new[k][1] <= hs[Len(hs) + 1 - i][2]
                    /\ hs[Len(hs) + 1 - i][2] <= new[k][2]
             THEN new
             ELSE Append(new, hs[Len(hs) + 1 - i]))

RECURSIVE remove_obscured(_, _, _)
\* for a, b, name in reversed(highlights): ... new.append((a, b, name)),
\* from the i-th item down.
remove_obscured(hs, i, new) ==
    IF i = 0 THEN new
    ELSE remove_obscured(
             hs, i - 1,
             IF \E k \in 1..Len(new) :
                    /\ new[k][1] <= hs[i][1] /\ hs[i][1] <= new[k][2]
                    /\ new[k][1] <= hs[i][2] /\ hs[i][2] <= new[k][2]
             THEN new
             ELSE Append(new, hs[i]))

\* _build_part_of_highlight_map(start_index), the capture loop: per line,
\* the spans it appends.
appended_by(c, start_index) ==
    add_nodes(<<>>,
              captures_in(c.tree, <<start_index, 0>>,
                          <<Min(Len(c.lines), start_index + BLOCK_SIZE), 0>>),
              1, Len(c.lines))

\* _build_part_of_highlight_map(start_index): the cache after it.
build_part_of_highlight_map(c, start_index) ==
    LET line_count == Len(c.lines)
        end_index == Min(line_count, start_index + BLOCK_SIZE)
        captures == captures_in(c.tree, <<start_index, 0>>, <<end_index, 0>>)
        collected == add_nodes(c.highlights, captures, 1, line_count)
        block == start_index..end_index - 1
        realigned ==
            [r \in DOMAIN collected \cup block |->
                IF r \in block
                THEN IF r \in DOMAIN collected
                     THEN [k \in 1..Len(collected[r]) |->
                              realign_highlight(c.lines[r + 1], collected[r][k])]
                     ELSE <<>>
                ELSE collected[r]]
        sorted ==
            [r \in DOMAIN realigned |->
                IF r \in block THEN sort_highlights(realigned[r], 1, <<>>)
                ELSE realigned[r]]
    IN  [c EXCEPT !.highlights =
            [r \in DOMAIN sorted |->
                IF r \in block
                THEN remove_obscured(sorted[r], Len(sorted[r]), <<>>)
                ELSE sorted[r]]]

\* Mutant of getitem: the block is not recorded as computed.
getitem_forgetful(index) ==
    /\ asked' = <<index>>
    /\ IF index >= Len(cache.lines)
       THEN returned' = <<>> /\ queried' = 0 /\ raised' = ""
            /\ appended' = <<>>
            /\ UNCHANGED cache
       ELSE \E block_index \in {index \div BLOCK_SIZE} :
            IF block_index \notin cache.blocks
               /\ (~cache.query \/ cache.tree.id = 0)
            THEN \* self._query.set_point_range or self._tree.root_node
                 \* of None
                 /\ cache' = cache
                 /\ returned' = <<>>
                 /\ queried' = 0
                 /\ raised' = "AttributeError"
                 /\ appended' = <<>>
            ELSE \E built \in
                     {IF block_index \in cache.blocks THEN cache
                      ELSE build_part_of_highlight_map(
                               cache,
                               block_index * BLOCK_SIZE)} :
                     /\ cache' = built
                     /\ returned' = built.highlights[index]
                     /\ queried' =
                            IF block_index \in cache.blocks THEN 0 ELSE 1
                     /\ raised' = ""
                     /\ appended' =
                            IF block_index \in cache.blocks THEN <<>>
                            ELSE appended_by(cache, block_index * BLOCK_SIZE)

\* SyntaxLineSpans.__getitem__(index) as a handler.
getitem(index) ==
    /\ asked' = <<index>>
    /\ IF index >= Len(cache.lines)
       THEN returned' = <<>> /\ queried' = 0 /\ raised' = ""
            /\ appended' = <<>>
            /\ UNCHANGED cache
       ELSE \E block_index \in {index \div BLOCK_SIZE} :
            IF block_index \notin cache.blocks
               /\ (~cache.query \/ cache.tree.id = 0)
            THEN \* self._query.set_point_range or self._tree.root_node
                 \* of None
                 /\ cache' = [cache EXCEPT !.blocks = @ \cup {block_index}]
                 /\ returned' = <<>>
                 /\ queried' = 0
                 /\ raised' = "AttributeError"
                 /\ appended' = <<>>
            ELSE \E built \in
                     {IF block_index \in cache.blocks THEN cache
                      ELSE build_part_of_highlight_map(
                               [cache EXCEPT !.blocks = @ \cup {block_index}],
                               block_index * BLOCK_SIZE)} :
                     /\ cache' = built
                     /\ returned' = built.highlights[index]
                     /\ queried' =
                            IF block_index \in cache.blocks THEN 0 ELSE 1
                     /\ raised' = ""
                     /\ appended' =
                            IF block_index \in cache.blocks THEN <<>>
                            ELSE appended_by(cache, block_index * BLOCK_SIZE)

\* Mutant of set_snapshot_of: the lines are stored whether or not there is
\* a query and a tree.
set_snapshot_unguarded(new_lines, query, new_tree) ==
    /\ cache' = IF cache.tree.id # new_tree.id
                THEN [lines |-> new_lines, tree |-> new_tree,
                      query |-> query, blocks |-> {}, highlights |-> <<>>]
                ELSE cache
    /\ returned' = <<>>
    /\ queried' = 0
    /\ asked' = <<>>
    /\ raised' = ""
    /\ appended' = <<>>

\* Mutant of set_snapshot_of: the computed blocks and the span lists are
\* kept.
set_snapshot_keeping(new_lines, query, new_tree) ==
    /\ cache' = IF cache.tree.id # new_tree.id
                THEN [cache EXCEPT
                         !.lines = IF ~query \/ new_tree.id = 0 THEN <<>>
                                   ELSE new_lines,
                         !.tree = new_tree, !.query = query]
                ELSE cache
    /\ returned' = <<>>
    /\ queried' = 0
    /\ asked' = <<>>
    /\ raised' = ""
    /\ appended' = <<>>

\* SyntaxLineSpans.set_snapshot(lines, query, tree) as a handler.
set_snapshot_of(new_lines, query, new_tree) ==
    /\ cache' = IF cache.tree.id # new_tree.id
                THEN [lines |-> IF ~query \/ new_tree.id = 0 THEN <<>>
                                ELSE new_lines,
                      tree |-> new_tree, query |-> query, blocks |-> {},
                      highlights |-> <<>>]
                ELSE cache
    /\ returned' = <<>>
    /\ queried' = 0
    /\ asked' = <<>>
    /\ raised' = ""
    /\ appended' = <<>>

\* The texts a snapshot is taken of: up to MaxRows lines, all alike (each
\* line of a block is realigned by itself).
Snapshots ==
    {[i \in 1..n |-> line] : n \in 1..MaxRows, line \in SnapshotLines}

\* Node a stands before node b in the result of Query.captures: no two
\* nodes of Nodes give the same span on a line, so one order stands for all.
Before(a, b) ==
    \/ PointLess(a.start_point, b.start_point)
    \/ a.start_point = b.start_point /\ PointLess(a.end_point, b.end_point)

\* The lists of distinct nodes a query captures in a tree.
CaptureLists ==
    {cs \in UNION {[1..n -> Nodes] : n \in 0..MaxCaptures} :
        \A i, j \in 1..Len(cs) : i < j => Before(cs[i], cs[j])}

\* The texts of more than one block: BLOCK_SIZE + 1 lines, all alike.
LongSnapshots == {[i \in 1..BLOCK_SIZE + 1 |-> line] : line \in SnapshotLines}

\* The nodes captured in the tree of such a text: one that runs from the
\* last but one line of block 0 into the first line of block 1, and one of
\* the first line of block 1.
LongNodes ==
    {[name |-> "comment", start_point |-> <<BLOCK_SIZE - 2, 2>>,
      end_point |-> <<BLOCK_SIZE, 2>>],
     [name |-> "keyword", start_point |-> <<BLOCK_SIZE, 0>>,
      end_point |-> <<BLOCK_SIZE, 1>>]}

\* The lists of distinct nodes a query captures in the tree of such a text.
LongCaptureLists ==
    {cs \in UNION {[1..n -> LongNodes] : n \in 0..MaxCaptures} :
        \A i, j \in 1..Len(cs) : i # j => cs[i] # cs[j]}

\* The (lines, captures) a parse can hand over.
Parses == (Snapshots \X CaptureLists) \cup (LongSnapshots \X LongCaptureLists)

\* The history stale after set_snapshot was called with new_lines, query and
\* new_tree.
Outdated(new_lines, query, new_tree) ==
    stale' = IF new_tree.id = cache.tree.id THEN stale
             ELSE IF /\ query
                     /\ new_tree.id # 0
                     /\ new_tree.captures = cache.tree.captures
                     /\ new_lines = cache.lines
                  THEN {r \in 0..Len(cache.lines) - 1 :
                           (r \div BLOCK_SIZE) \in cache.blocks}
             ELSE {}

\* A parse has completed and handle_parse_complete hands the cache the
\* lines and the new tree (another object than the stored one).
SetSnapshot ==
    /\ \E parse \in Parses :
       \E new_tree \in {[id |-> IF cache.tree.id = 1 THEN 2 ELSE 1,
                          captures |-> parse[2]]} :
           /\ set_snapshot_of(parse[1], TRUE, new_tree)
           /\ Outdated(parse[1], TRUE, new_tree)
    /\ UNCHANGED controller_vars
    /\ UNCHANGED <<text, byte_offsets, forwarded>>
    /\ UNCHANGED change
    /\ UNCHANGED other_vars

\* Another user of the map calls set_snapshot for the same lines: with the
\* stored tree object again or with None, with or without a query.
SetSnapshotAgain ==
    /\ \E query \in BOOLEAN :
       \E new_tree \in {cache.tree, [id |-> 0, captures |-> <<>>]} :
           /\ set_snapshot_of(cache.lines, query, new_tree)
           /\ Outdated(cache.lines, query, new_tree)
    /\ UNCHANGED controller_vars
    /\ UNCHANGED <<text, byte_offsets, forwarded>>
    /\ UNCHANGED change
    /\ UNCHANGED other_vars

\* A user of the map looks a line up.
Lookup ==
    /\ \E index \in 0..MaxRows \cup BLOCK_SIZE - 1..BLOCK_SIZE :
           getitem(index)
    /\ UNCHANGED stale
    /\ UNCHANGED controller_vars
    /\ UNCHANGED <<text, byte_offsets, forwarded>>
    /\ UNCHANGED change
    /\ UNCHANGED other_vars

CacheNext == SetSnapshot \/ SetSnapshotAgain \/ Lookup

\* The highlight cache under snapshots and lookups.
CacheSpec == Init /\ [][CacheNext]_vars

(***************************************************************************)
(* build_byte_to_codeppoint_table as a function of its text and of the     *)
(* index its result is asked for.                                          *)
(***************************************************************************)

\* The texts a table is built for.
Texts == UNION {[1..n -> Chars] : n \in 0..MaxChars}

\* A table is asked for an index: a byte column of the text up to its
\* length (the column after the last character) or the end-of-line
\* sentinel.
MapperInit ==
    /\ PartsInit
    /\ setup = NewSetup
    /\ \E t \in Texts :
       \E i \in 0..utf8_len(t) \cup {TO_END_OF_LINE} :
           mapped = [text |-> t, index |-> i, result |-> -1]

\* build_byte_to_codeppoint_table(text)[index] is evaluated.
MapIndex ==
    /\ mapped.result = -1
    /\ mapped' = [mapped EXCEPT !.result = mapper(mapped.text, mapped.index)]
    /\ UNCHANGED controller_vars
    /\ UNCHANGED table_vars
    /\ UNCHANGED cache_vars
    /\ UNCHANGED <<change, setup, merged>>

\* The index mapper for any text and index.
MapperSpec == MapperInit /\ [][MapIndex]_vars

(***************************************************************************)
(* Setup: vpe_sitter.treesit_current_buffer and parsers.provide_parser.    *)
(* In the setup record, module is what importing tree_sitter_python and    *)
(* calling its language() do ("ok", or the exception raised), languages    *)
(* is the dict _filetype_to_language, stores is per buffer "none" (no      *)
(* 'tree-sitter' store), "empty" (a store without a listener) or           *)
(* "listener", called is the function called last with buffer or           *)
(* asked_filetype its argument, and outcome is what it returned ("" the    *)
(* empty string, "message" a non-empty string, "None", "Parser", or        *)
(* "BareParser", a Parser without a language) or raised ("TypeError").     *)
(***************************************************************************)

\* vim.options.encoding
Encodings == {"utf-8", "latin1"}

\* importlib.import_module(module_name) and module.language()
Modules == {"ok", "ImportError", "Exception"}

\* _filetype_to_language[filetype] = value
remember(languages, filetype, value) ==
    [ft \in DOMAIN languages \cup {filetype} |->
        IF ft = filetype THEN value ELSE languages[ft]]

\* parsers.provide_parser(filetype): the dict after the call and the value
\* returned or the exception raised.  Parser(None), which the call ends
\* with for a filetype that was found unsupported before, raises TypeError
\* or gives a Parser without a language, as the tree_sitter release has it.
provide_parser(s, filetype) ==
    IF filetype \notin DOMAIN s.languages
    THEN IF filetype # "python" \/ s.module # "ok"
         THEN {[languages |-> remember(s.languages, filetype, "None"),
                value |-> "None"]}
         ELSE {[languages |-> remember(s.languages, filetype, "Language"),
                value |-> "Parser"]}
    ELSE IF s.languages[filetype] = "None"
         THEN {[languages |-> s.languages, value |-> v] :
                  v \in {"TypeError", "BareParser"}}
    ELSE {[languages |-> s.languages, value |-> "Parser"]}

\* listen.Listener(...) called with nargs arguments for a buffer:
\* __init__(self, buf, parser, query) raises TypeError unless it gets all
\* three, and otherwise subscribes to the buffer's changes.
new_listener(s, b, nargs) ==
    IF nargs = 3
    THEN [s EXCEPT !.listeners[b] = @ + 1,
                   !.subscriptions[b] = @ + 1,
                   !.stores[b] = "listener",
                   !.outcome = ""]
    ELSE [s EXCEPT !.outcome = "TypeError"]

\* treesit_current_buffer() with b the current buffer: the setups it can
\* leave.  The store is created before Listener(buf, parser) is called.
treesit_current_buffer(s, b) ==
    IF s.encoding # "utf-8" THEN {[s EXCEPT !.outcome = "message"]}
    ELSE {IF provided.value = "TypeError"
          THEN [s EXCEPT !.languages = provided.languages,
                         !.outcome = "TypeError"]
          ELSE IF provided.value = "None"
               THEN [s EXCEPT !.languages = provided.languages,
                              !.outcome = "message"]
          ELSE IF s.stores[b] = "none"
               THEN new_listener([s EXCEPT !.languages = provided.languages,
                                           !.stores[b] = "empty"], b, 2)
          ELSE [s EXCEPT !.languages = provided.languages, !.outcome = ""]
          : provided \in provide_parser(s, s.filetype[b])}

SetupInit ==
    /\ PartsInit
    /\ mapped = NoProbe
    /\ setup \in {[NewSetup EXCEPT !.encoding = e, !.module = m,
                                   !.filetype = f] :
                      e \in Encodings, m \in Modules,
                      f \in [Bufs -> Filetypes]}

\* Tree tracking is switched on with buffer b current ('Treesit on').
Enable ==
    /\ \E b \in Bufs :
           setup' \in {[after EXCEPT !.called = "treesit_current_buffer",
                                     !.buffer = b, !.asked_filetype = ""] :
                          after \in treesit_current_buffer(setup, b)}
    /\ UNCHANGED controller_vars
    /\ UNCHANGED table_vars
    /\ UNCHANGED cache_vars
    /\ UNCHANGED <<change, mapped, merged>>

\* provide_parser is called for a filetype by another user of the module.
ProvideParser ==
    /\ \E filetype \in Filetypes :
           setup' \in {[setup EXCEPT !.languages = provided.languages,
                                     !.called = "provide_parser",
                                     !.buffer = 0,
                                     !.asked_filetype = filetype,
                                     !.outcome = provided.value] :
                          provided \in provide_parser(setup, filetype)}
    /\ UNCHANGED controller_vars
    /\ UNCHANGED table_vars
    /\ UNCHANGED cache_vars
    /\ UNCHANGED <<change, mapped, merged>>

SetupNext == Enable \/ ProvideParser

\* The setup of the plugin for MaxBuffers buffers.
SetupSpec == SetupInit /\ [][SetupNext]_vars

(***************************************************************************)
(* ChangeRangeMerger: two lists of half-open line ranges merged into the   *)
(* sorted list of disjoint ranges that covers their union.                 *)
(***************************************************************************)

\* The ranges the merger is given: ranges that overlap in part, that touch,
\* that lie one in another and that lie apart, and two empty ones.
Ranges ==
    {<<0, 2>>, <<0, 3>>, <<0, 5>>, <<2, 3>>, <<2, 5>>, <<3, 3>>, <<3, 5>>,
     <<10, 12>>, <<12, 12>>}

\* The lists of at most n ranges the merger is given.
RangeLists(n) == UNION {[1..k -> Ranges] : k \in 0..n}

\* Sort all ranges by (start, stop).
sort_ranges(rs) == sort_highlights(rs, 1, <<>>)

\* Two ranges overlap: not (a.stop < b.start or b.stop < a.start).
ranges_overlap(a, b) == ~(a[2] < b[1] \/ b[2] < a[1])

\* Mutant of range_union: the union stops where the second range stops.
range_union_second_stop(a, b) == <<Min(a[1], b[1]), b[2]>>

\* The union of two overlapping ranges.
range_union(a, b) == <<Min(a[1], b[1]), Max(a[2], b[2])>>

RECURSIVE merge_sorted(_, _)
\* Repeatedly take the two lowest-sorted ranges not yet emitted: if they
\* overlap, replace both with their union and keep merging, otherwise emit
\* the lower one and continue.
merge_sorted(rs, emitted) ==
    IF Len(rs) < 2 THEN emitted \o rs
    ELSE IF ranges_overlap(rs[1], rs[2])
         THEN merge_sorted(<<range_union(rs[1], rs[2])>> \o Tail(Tail(rs)),
                           emitted)
    ELSE merge_sorted(Tail(rs), Append(emitted, rs[1]))

\* The merger for the two lists a and b.
merge_ranges(a, b) == merge_sorted(sort_ranges(a \o b), <<>>)

MergerInit ==
    /\ ControllerInit
    /\ CacheInit
    /\ text = << <<>> >>
    /\ byte_offsets = <<0, 1>>
    /\ forwarded = <<>>
    /\ raised = ""
    /\ mapped = NoProbe
    /\ setup = NewSetup
    /\ \E a \in RangeLists(MaxRanges) :
       \E b \in RangeLists(MaxRanges - Len(a)) :
           merged = [NoMerge EXCEPT !.a = a, !.b = b]

\* The two lists are merged.
Merge ==
    /\ ~merged.done
    /\ merged' = [merged EXCEPT !.done = TRUE,
                                !.result = merge_ranges(merged.a, merged.b)]
    /\ UNCHANGED controller_vars
    /\ UNCHANGED table_vars
    /\ UNCHANGED cache_vars
    /\ UNCHANGED <<change, mapped, setup>>

\* The range merger for any two lists.
MergerSpec == MergerInit /\ [][Merge]_vars

(***************************************************************************)
(* Steps and states the properties speak about.                            *)
(***************************************************************************)

\* A step in which start() ran: Listener.__init__'s call or a deferred one.
\* (Only start() consumes a call_soon request, and a start() that completes
\* has emptied pending_changes before, so it never queues another.)
StartStep == (~constructed /\ constructed') \/ soon' = soon - 1

\* A step in which the parser returned a tree.
CompletionStep == ntrees' = ntrees + 1

\* A step in which a parse attempt was made and timed out.
TimeoutStep == nedits' = nedits /\ ntrees' = ntrees /\ calls' # <<>>

\* The ids of a sequence of edits.
Ids(edits) == [i \in 1..Len(edits) |-> edits[i].id]

\* Nothing is scheduled: no retry timer and no deferred start().
Quiescent == constructed /\ timers = 0 /\ soon = 0

\* C1: at most one parse continuation (retry timer) is outstanding for the
\* controller, in every reachable state.
C1_OneInFlight == timers <= 1

\* C2: start requests coalesce: while the controller is idle, however many
\* edits arrived, at most one deferred start() is waiting to run.
C2_StartsCoalesce == ~active => soon <= 1

\* C3: a start() that runs while active is true changes nothing: tree,
\* pending_changes, affected_lines, lines and code_bytes keep their values,
\* no parse call is made and no retry timer is created.
C3_StartWhileActiveNoop ==
    [][(StartStep /\ active) =>
          /\ tree' = tree
          /\ pending_changes' = pending_changes
          /\ affected_lines' = affected_lines
          /\ lines' = lines
          /\ code_bytes' = code_bytes
          /\ timers' = timers
          /\ ntrees' = ntrees]_vars

\* C4: every edit given to add_edit is applied to the tree exactly once and
\* in arrival order: the edits applied so far followed by the pending ones
\* are the edits 1..nedits; a start() applies exactly the pending edits, in
\* order, before its parse call, and leaves pending_changes empty; no other
\* step applies an edit.
C4_EditsAppliedOnceInOrder ==
    /\ [](applied \o Ids(pending_changes) = [i \in 1..nedits |-> i])
    /\ [][IF StartStep /\ tree # NoTree
           THEN /\ pending_changes' = <<>>
                /\ applied' = applied \o Ids(pending_changes)
                /\ calls' = [i \in 1..Len(pending_changes) |->
                                <<"edit", pending_changes[i].id>>]
                            \o << <<"parse", code_bytes'>> >>
           ELSE applied' = applied]_vars

\* C4 witness: a start() has applied two pending edits and then parsed.
C4_Witness ==
    /\ Len(calls) = 3
    /\ calls[1][1] = "edit" /\ calls[2][1] = "edit" /\ calls[3][1] = "parse"
    /\ pending_changes = <<>>

\* C5: while a parse attempt is outstanding (active is true) no edit is
\* applied to the tree and the snapshot being parsed is not replaced.
C5_QueuedOnlyWhileActive ==
    [][active => /\ applied' = applied
                 /\ lines' = lines
                 /\ code_bytes' = code_bytes]_vars

\* What the subscribers get when each is called once, in registration
\* order, with the one argument ranges.
EachCalledWith(ranges) == [i \in 1..callbacks |-> <<i, <<ranges>> >>]

\* Idle with no pending edit, holding a tree parsed from the buffer's current
\* content, which has been reported and which every subscriber has been
\* called for.
CaughtUp ==
    /\ ~active
    /\ pending_changes = <<>>
    /\ tree # NoTree
    /\ tree.ver = buf
    /\ ~tree.mixed
    /\ nnotes = ntrees
    /\ snapshot.tree = tree.id
    /\ \A i \in 1..callbacks : seen[i] = tree.id

\* C6: under fair scheduling, once edits have stopped the controller ends up,
\* and stays, with nothing scheduled, idle, no pending edit, and a tree
\* parsed from the buffer's final content that the subscribers were notified
\* of.
C6_EventualCatchUp == <>[](Quiescent /\ CaughtUp)

\* C6 witness: after two edits and a re-parse the controller has caught up,
\* with a subscriber registered.
C6_Witness ==
    nedits >= 2 /\ ntrees >= 2 /\ callbacks >= 1 /\ Quiescent /\ CaughtUp

\* C7: a parse attempt that times out reports nothing, leaves the stored
\* tree in place, leaves active true and leaves a retry timer scheduled.
C7_TimeoutRecoveredLocally ==
    [][TimeoutStep =>
          /\ notes' = <<>>
          /\ delivered' = <<>>
          /\ nnotes' = nnotes
          /\ tree'.id = tree.id
          /\ active'
          /\ timer'
          /\ timers' >= 1]_vars

AddEditStep == nedits' = nedits + 1

\* A step in which a subscriber registered.
AddCallbackStep == callbacks' = callbacks + 1

C14_SubscribersAfterSwitch ==
    [][CompletionStep =>
          /\ delivered' = EachCalledWith(affected_lines')
          /\ observed' = [i \in 1..callbacks |->
                             [tree |-> ntrees', active |-> FALSE,
                              snapshot |-> ntrees']]]_vars

\* C14 witness: a parse that followed an edit has completed and two
\* subscribers were called for it.
C14_Witness ==
    /\ notes # <<>> /\ Len(observed) = 2 /\ ntrees >= 2
    /\ observed[2].snapshot = tree.id

\* Some range of ranges covers row k.
Covers(ranges, k) ==
    \E i \in 1..Len(ranges) : ranges[i][1] <= k /\ k < ranges[i][2]

\* C19: for an in-place replacement of the one line k, handed over while a
\* tree exists and the controller is idle, the edit given to add_edit has
\* start row k, and (as long as no line is inserted or deleted) the
\* changed line ranges the next parse completion delivers cover row k.
C19_ReplacedRowReported ==
    /\ [][(AddEditStep /\ change'[3] = 0 /\ change'[2] = change'[1] + 1) =>
             pending_changes'[Len(pending_changes')].start_row = change'[1]]_vars
    /\ [][CompletionStep =>
             \A k \in replaced : Covers(notes'[1][1], k)]_vars

\* The offset of line i (from 0) of buffer b: the bytes of the lines before
\* it, each with its newline.
RECURSIVE BytesBefore(_, _)
BytesBefore(b, i) ==
    IF i = 0 THEN 0 ELSE BytesBefore(b, i - 1) + utf8_len(b[i]) + 1

\* A step in which handle_changes ran.
ChangeStep == change' # <<>>

\* C15: for every host change (start_line, end_line, added), handle_changes
\* gives add_edit exactly one edit: start_byte and old_end_byte are the
\* entries start_line and end_line of byte_offsets as it was before the
\* step, new_end_byte is the entry end_line + added of byte_offsets as it is
\* after, and the points are (start_line, 0), (end_line, 0) and
\* (end_line + added, 0).
C15_EditFromTable ==
    [][ChangeStep =>
          /\ raised' = ""
          /\ forwarded' =
                 << [start_byte |-> byte_offsets[change'[1] + 1],
                     old_end_byte |-> byte_offsets[change'[2] + 1],
                     new_end_byte |->
                         byte_offsets'[change'[2] + change'[3] + 1],
                     start_point |-> <<change'[1], 0>>,
                     old_end_point |-> <<change'[2], 0>>,
                     new_end_point |-> <<change'[2] + change'[3], 0>>] >>]_vars

\* C15 witness: lines were inserted below a line with a two-byte character
\* and the edit's new end byte lies beyond its old end byte.
C15_Witness ==
    /\ Len(forwarded) = 1 /\ change # <<>> /\ change[3] > 0
    /\ forwarded[1].start_byte >= 4
    /\ forwarded[1].new_end_byte > forwarded[1].old_end_byte

\* C16: byte_offsets is the prefix-sum table of the buffer after
\* construction and after every accurately reported change: it has one
\* entry more than the buffer has lines, and entry i is the sum over the
\* lines j < i of the UTF-8 length of line j plus 1.
C16_PrefixSumTable ==
    /\ Len(byte_offsets) = Len(text) + 1
    /\ \A i \in 0..Len(text) : byte_offsets[i + 1] = BytesBefore(text, i)

\* C16 witness: after a deletion the buffer still has two lines, the second
\* of which follows a line with a two-byte character.
C16_Witness ==
    /\ change # <<>> /\ change[3] < 0 /\ Len(text) = 2
    /\ byte_offsets[2] = 4

\* C17 as claimed: a change reported to start one past the last known line
\* is treated as starting at the line before: the edit's start point has
\* row start_line - 1 and its start byte is that line's offset.
C17_AppendStartsAtPreviousLine ==
    [][(ChangeStep /\ change'[1] = Len(text)) =>
          /\ Len(forwarded') = 1
          /\ forwarded'[1].start_point = <<change'[1] - 1, 0>>
          /\ forwarded'[1].start_byte = byte_offsets[change'[1]]]_vars

\* C17 as amended: a change reported to start one past the last known line
\* is taken as reported: the edit's start point has row start_line and its
\* start byte is the last entry of the table, the buffer's byte length
\* before the change.
C17_AppendStartsAsReported ==
    [][(ChangeStep /\ change'[1] = Len(text)) =>
          /\ Len(forwarded') = 1
          /\ raised' = ""
          /\ forwarded'[1].start_point = <<change'[1], 0>>
          /\ forwarded'[1].start_byte = byte_offsets[Len(byte_offsets)]
          /\ forwarded'[1].start_byte = BytesBefore(text, Len(text))]_vars

\* C17 witness: two lines were appended to a buffer of one line.
C17_Witness ==
    /\ change = <<1, 1, 2>> /\ Len(text) = 3 /\ Len(forwarded) = 1
    /\ forwarded[1].start_point = <<1, 0>>

\* C18: whatever the host reports, handle_changes raises nothing and gives
\* add_edit an edit whose new end line is at most the buffer's line count
\* and whose new end byte is at most the table's last entry.
C18_NoIndexError ==
    [][ChangeStep =>
          /\ raised' = ""
          /\ Len(forwarded') = 1
          /\ forwarded'[1].new_end_point[1] <= Len(text')
          /\ forwarded'[1].new_end_byte
                 <= byte_offsets'[Len(byte_offsets')]]_vars

\* The lines of the computed blocks of the cache.
ComputedRows ==
    {r \in 0..Len(cache.lines) - 1 : (r \div BLOCK_SIZE) \in cache.blocks}

\* Spans a and b overlap.
Overlap(a, b) == a[1] < b[2] /\ b[1] < a[2]

\* Span a lies within span b (the test of the removal loop).
Within(a, b) == b[1] <= a[1] /\ a[1] <= b[2] /\ b[1] <= a[2] /\ a[2] <= b[2]

BlockRows(c, index) ==
    {r \in 0..Len(c.lines) - 1 : r \div BLOCK_SIZE = index \div BLOCK_SIZE}

C21_SortedAscending ==
    \A r \in ComputedRows :
        \A i, j \in 1..Len(cache.highlights[r]) :
            i < j => KeyLessEq(cache.highlights[r][i], cache.highlights[r][j])

\* A step in which set_snapshot was called.
SnapshotStep == asked' = <<>>

\* A step in which __getitem__(index) was called.
LookupStep(index) == asked' = <<index>>

\* C22: set_snapshot with another tree object than the stored one leaves no
\* computed block and no span list, and runs no query; set_snapshot with
\* the stored tree object changes nothing; and a lookup of a line that was
\* computed for the replaced tree, in a block not computed since, runs the
\* query again although the new tree has the same captures for the same
\* lines.
C22_Invalidation ==
    [][/\ SnapshotStep /\ cache'.tree.id # cache.tree.id =>
              /\ cache'.blocks = {}
              /\ cache'.highlights = <<>>
              /\ queried' = 0
       /\ SnapshotStep /\ cache'.tree.id = cache.tree.id => cache' = cache
       /\ \A index \in stale :
              /\ LookupStep(index)
              /\ (index \div BLOCK_SIZE) \notin cache.blocks
              => /\ queried' = 1
                 /\ (index \div BLOCK_SIZE) \in cache'.blocks]_vars

\* C22 witness: a line with a span, computed for a tree that was then
\* replaced by another tree object with the same captures, has been looked
\* up and the query has run again.
C22_Witness ==
    /\ asked # <<>> /\ asked[1] \in stale
    /\ queried = 1
    /\ returned # <<>>

\* C23: a lookup of a line index at or beyond the snapshot's line count
\* returns the empty list, runs no query, marks no block as computed and
\* raises nothing; a snapshot without a tree or without a query has no
\* lines, so every lookup made of it is such a lookup.
C23_BeyondLineCount ==
    /\ [](cache.tree.id = 0 \/ ~cache.query => cache.lines = <<>>)
    /\ [][\A index \in 0..BLOCK_SIZE :
              LookupStep(index) /\ index >= Len(cache.lines) =>
                  /\ returned' = <<>>
                  /\ queried' = 0
                  /\ raised' = ""
                  /\ cache' = cache]_vars

\* C23 witness: line 1 of a snapshot of one line, in which the query
\* captures a node that runs into line 1, has been looked up.
C23_Witness ==
    /\ asked = <<1>> /\ Len(cache.lines) = 1
    /\ \E k \in 1..Len(cache.tree.captures) :
           cache.tree.captures[k].end_point[1] = 1
    /\ returned = <<>> /\ cache.blocks = {}

\* The spans the captured nodes give line r, in character columns.
LineSpans(c, r) ==
    {realign_highlight(c.lines[r + 1], node_highlights(c.tree.captures[k], r)[1])
        : k \in {k \in 1..Len(c.tree.captures) :
                    node_highlights(c.tree.captures[k], r) # <<>>}}

\* Those of them that lie within no other one that follows in (start, end)
\* order.
KeptSpans(c, r) ==
    {h \in LineSpans(c, r) :
        \A g \in LineSpans(c, r) :
            g # h /\ KeyLessEq(h, g) => ~Within(h, g)}

\* C24: a lookup of a line below the line count runs the query exactly when
\* the line's block is not computed yet, and then every line of that block
\* (BLOCK_SIZE lines, fewer at the end of the text) has its spans; a
\* lookup in a computed block changes nothing; and the set of computed
\* blocks only grows while the tree object stays, so one block's query
\* runs at most once for one snapshot.
C24_LazyBlockFill ==
    /\ [][\A index \in 0..BLOCK_SIZE :
              LookupStep(index) /\ index < Len(cache.lines) =>
                  IF (index \div BLOCK_SIZE) \in cache.blocks
                  THEN queried' = 0 /\ cache' = cache
                  ELSE /\ queried' = 1
                       /\ cache'.blocks =
                              cache.blocks \cup {index \div BLOCK_SIZE}
                       /\ Cardinality(BlockRows(cache', index))
                              = Min(BLOCK_SIZE,
                                    Len(cache.lines)
                                    - (index \div BLOCK_SIZE) * BLOCK_SIZE)
                       /\ \A r \in BlockRows(cache', index) :
                              /\ r \in DOMAIN cache'.highlights
                              /\ Len(cache'.highlights[r])
                                     = Cardinality(KeptSpans(cache, r))
                              /\ {cache'.highlights[r][k] :
                                     k \in 1..Len(cache'.highlights[r])}
                                     = KeptSpans(cache, r)]_vars
    /\ [][cache'.tree.id = cache.tree.id =>
              cache.blocks \subseteq cache'.blocks]_vars

\* C24 witness: in a text of BLOCK_SIZE + 1 lines, block 0 was computed by
\* an earlier lookup and a lookup of the first line of block 1 has now run
\* the query for block 1, which captures two nodes of which one span is
\* left.
C24_Witness ==
    /\ Len(cache.lines) = BLOCK_SIZE + 1
    /\ asked = <<BLOCK_SIZE>> /\ queried = 1
    /\ cache.blocks = {0, 1}
    /\ Len(cache.tree.captures) = 2
    /\ Len(returned) = 1

\* The number of bytes of the first k characters of text.
PrefixBytes(chars, k) == utf8_len(SubSeq(chars, 1, k))

\* C25: for a byte column on a character boundary, from 0 to the text's
\* byte length, the mapper gives the number of characters that the bytes
\* before the column encode.
C25_CodepointsBefore ==
    mapped.result # -1 =>
        \A k \in 0..Len(mapped.text) :
            PrefixBytes(mapped.text, k) = mapped.index => mapped.result = k

\* C25 witness: in "aa", U+00E9, "a" the byte column 4, where the last "a"
\* starts, was mapped to character column 3.
C25_Witness ==
    mapped = [text |-> <<97, 97, 233, 97>>, index |-> 4, result |-> 3]

\* The span the decomposition gives row r for a node, if any.
Decomposed(node, r) ==
    LET r1 == node.start_point[1]
        r2 == node.end_point[1]
    IN  IF r1 = r2
        THEN IF r = r1
             THEN {<<node.start_point[2], node.end_point[2], node.name>>}
             ELSE {}
        ELSE IF r = r1
             THEN {<<node.start_point[2], TO_END_OF_LINE, node.name>>}
        ELSE IF r1 < r /\ r < r2 THEN {<<0, TO_END_OF_LINE, node.name>>}
        ELSE IF r = r2 THEN {<<0, node.end_point[2], node.name>>}
        ELSE {}

\* The nodes the query captures for the block of line index.
Captured(c, index) ==
    captures_in(c.tree, <<(index \div BLOCK_SIZE) * BLOCK_SIZE, 0>>,
                <<Min(Len(c.lines),
                      (index \div BLOCK_SIZE) * BLOCK_SIZE + BLOCK_SIZE), 0>>)

\* C26: when a lookup computes a block, its capture loop appends for each
\* captured node, in the order of the captures, to each row below the line
\* count exactly the span of the decomposition (first row: start column to
\* the end-of-line sentinel; rows between: 0 to the sentinel; last row: 0
\* to the end column; a node of one row: start column to end column), and
\* nothing to a row at or beyond the line count.
C26_Decomposition ==
    [][\A index \in 0..BLOCK_SIZE :
           LookupStep(index) /\ queried' = 1 =>
               /\ DOMAIN appended' \subseteq 0..Len(cache.lines) - 1
               /\ \A r \in 0..Len(cache.lines) - 1 :
                      LET nodes == SelectSeq(Captured(cache, index),
                                             LAMBDA n : Decomposed(n, r) # {})
                          spans == IF r \in DOMAIN appended'
                                   THEN appended'[r] ELSE <<>>
                      IN  /\ Len(spans) = Len(nodes)
                          /\ \A k \in 1..Len(nodes) :
                                 {spans[k]} = Decomposed(nodes[k], r)]_vars

\* C26 witness: in a text of BLOCK_SIZE + 1 lines a lookup has computed
\* block 0 with a captured node of three rows: a span from column 2 to the
\* sentinel on its first row, a full-line span on the row between, and,
\* on its last row, which is in block 1, a span from 0 to column 2.
C26_Witness ==
    /\ Len(cache.lines) = BLOCK_SIZE + 1
    /\ asked = <<BLOCK_SIZE - 1>> /\ queried = 1
    /\ DOMAIN appended = BLOCK_SIZE - 2..BLOCK_SIZE
    /\ appended[BLOCK_SIZE - 2] = << <<2, TO_END_OF_LINE, "comment">> >>
    /\ appended[BLOCK_SIZE - 1] = << <<0, TO_END_OF_LINE, "comment">> >>
    /\ appended[BLOCK_SIZE] = << <<0, 2, "comment">> >>

\* C27: in the list a lookup of line r returns, the span of a captured node
\* that continues past line r ends at the end-of-line sentinel.
C27_SentinelPreserved ==
    asked # <<>> =>
        \A k \in 1..Len(returned) :
            \A i \in 1..Len(cache.tree.captures) :
                LET node == cache.tree.captures[i]
                IN  /\ node.name = returned[k][3]
                    /\ node.start_point[1] <= asked[1]
                    /\ asked[1] < node.end_point[1]
                    => returned[k][2] = TO_END_OF_LINE

\* No parser is available for the filetype.
Unsupported(filetype) == filetype # "python" \/ setup.module # "ok"

\* C28: a call of treesit_current_buffer made while the encoding is not
\* UTF-8 or no parser is available for the buffer's filetype returns a
\* non-empty message and the buffer has no store and no Listener; a call
\* that returns the empty string leaves a Listener in the buffer's store.
C28_UnsupportedAtSetup ==
    setup.called = "treesit_current_buffer" =>
        /\ setup.encoding # "utf-8"
           \/ Unsupported(setup.filetype[setup.buffer])
           => /\ setup.outcome = "message"
              /\ setup.stores[setup.buffer] = "none"
              /\ setup.listeners[setup.buffer] = 0
        /\ setup.outcome = "" =>
               /\ setup.stores[setup.buffer] = "listener"
               /\ setup.listeners[setup.buffer] >= 1

\* C29: provide_parser returns None for a filetype without an available
\* parser and a Parser for a filetype with one, on every call.
C29_NoneWhenUnsupported ==
    setup.called = "provide_parser" =>
        setup.outcome = IF Unsupported(setup.asked_filetype)
                        THEN "None" ELSE "Parser"

\* C30: no buffer has more than one Listener or more than one change
\* subscription, and a buffer for which treesit_current_buffer has just
\* returned the empty string has a listener in its store.
C30_OneListenerPerBuffer ==
    \A b \in Bufs :
        /\ setup.listeners[b] <= 1
        /\ setup.subscriptions[b] <= 1
        /\ /\ setup.called = "treesit_current_buffer"
           /\ setup.buffer = b
           /\ setup.outcome = ""
           => setup.stores[b] = "listener"

\* The lines a half-open range covers.
Covered(r) == {l \in r[1]..r[2] - 1 : TRUE}

\* The lines the ranges of a list cover.
CoveredByAll(rs) == UNION {Covered(rs[i]) : i \in 1..Len(rs)}

\* C31: for any two lists of half-open line ranges, the empty and the
\* single-element lists included, the merged list is sorted ascending, its
\* ranges are pairwise disjoint and it covers exactly the union of the two
\* lists; (0,3), (2,5), (10,12) give (0,5), (10,12).
C31_MergedRanges ==
    merged.done =>
        /\ \A i, j \in 1..Len(merged.result) :
               i < j =>
                   /\ merged.result[i][1] < merged.result[j][1]
                   /\ merged.result[i][2] <= merged.result[j][1]
                   /\ Covered(merged.result[i]) \cap Covered(merged.result[j])
                          = {}
        /\ CoveredByAll(merged.result) = CoveredByAll(merged.a \o merged.b)
        /\ merged.a \o merged.b = << <<0, 3>>, <<2, 5>>, <<10, 12>> >>
               => merged.result = << <<0, 5>>, <<10, 12>> >>

\* C31 witness: the lists (0,3), (2,5) and (10,12) were merged into (0,5),
\* (10,12).
C31_Witness ==
    /\ merged.done
    /\ merged.a = << <<0, 3>>, <<2, 5>> >>
    /\ merged.b = << <<10, 12>> >>
    /\ merged.result = << <<0, 5>>, <<10, 12>> >>

\* self.parser.parse(self.code_bytes, encoding='utf-8'): the tree the
\* engine is given as old tree with a recorded parse call, by its id.  The
\* call passes the bytes and the encoding alone, so it is None (id 0).
old_tree(call) == IF Len(call) > 2 THEN call[3] ELSE NoTree.id

\* C32: every engine parse call is given the previous tree whenever one
\* exists (the tree the pending edits were just applied to); only when no
\* tree exists is the engine called without an old tree.
C32_ParseGivenPreviousTree ==
    [][\A k \in 1..Len(calls') :
           calls'[k][1] = "parse" => old_tree(calls'[k]) = tree.id]_vars

\* The raw spans of line r when a block with r is computed in cache c, app
\* being what the capture loop appends: the spans the line has already and
\* the appended ones, in character columns and sorted by (start, end).
RawSorted(c, app, r) ==
    LET raw == (IF r \in DOMAIN c.highlights THEN c.highlights[r] ELSE <<>>)
               \o (IF r \in DOMAIN app THEN app[r] ELSE <<>>)
    IN  sort_highlights([k \in 1..Len(raw) |->
                            realign_highlight(c.lines[r + 1], raw[k])],
                        1, <<>>)

RECURSIVE Kept(_, _)
\* The rule for the span at place i of the sorted list S: it is kept if and
\* only if no kept span that stands after it (and so was processed before
\* it) contains its range.
Kept(S, i) == ~\E k \in i + 1..Len(S) : Within(S[i], S[k]) /\ Kept(S, k)

RECURSIVE FromLast(_, _)
\* The kept spans of S from place i down to the first place.
FromLast(S, i) ==
    IF i = 0 THEN <<>>
    ELSE (IF Kept(S, i) THEN <<S[i]>> ELSE <<>>) \o FromLast(S, i - 1)

\* C33: when a lookup computes a block, then for each line of the block,
\* with the raw spans sorted by (start, end) and processed from last to
\* first, a span is kept if and only if no span kept earlier in the pass
\* contains its range, and the line's list is the kept spans, each exactly
\* once, in the order in which they were processed.
C33_OverlapResolution ==
    [][queried' = 1 =>
          \A r \in BlockRows(cache', asked'[1]) :
              IF r \notin DOMAIN cache.highlights \cup DOMAIN appended'
              THEN cache'.highlights[r] = <<>>
              ELSE \E S \in {RawSorted(cache, appended', r)} :
                       cache'.highlights[r] = FromLast(S, Len(S))]_vars

\* C33 witness: of the raw spans (0, 2) and (0, 1) of line 0, the span
\* (0, 2) was processed first and kept and the span (0, 1), which it
\* contains, was dropped.
C33_Witness ==
    /\ asked = <<0>> /\ queried = 1
    /\ 0 \in DOMAIN appended
    /\ appended[0] = << <<0, 1, "keyword">>, <<0, 2, "function">> >>
    /\ returned = << <<0, 2, "function">> >>

\* C34: no edit is stranded: whenever pending_changes is not empty, either
\* a parse is active with a retry timer outstanding, whose completion
\* requests a start() while edits are pending, or a start() request is
\* waiting with the scheduler.
C34_NoEditStranded ==
    /\ [](pending_changes # <<>> => (active /\ timers > 0) \/ soon > 0)
    /\ [][CompletionStep /\ pending_changes' # <<>> => soon' = soon + 1]_vars

\* C34 witness: two edits are pending while a parse is active and no
\* start() request is waiting.
C34_Witness ==
    /\ Len(pending_changes) = 2
    /\ active /\ timers = 1 /\ soon = 0

\* C35: cache lookups are order-independent: for one snapshot, a lookup
\* that computes a block leaves the span list of every line of the blocks
\* computed before as it was, so that the list a line's lookup returned
\* does not depend on the lookups of other blocks, a captured node that
\* spans a block boundary included.
C35_LookupOrderIndependent ==
    [][queried' = 1 =>
          \A r \in ComputedRows :
              cache'.highlights[r] = cache.highlights[r]]_vars

\* A step in which start() applied a batch of pending edits to the tree.
BatchStep == StartStep /\ pending_changes # <<>> /\ tree # NoTree

\* No final numbering is claimed for a range.
Unclaimed == <<-1, -1>>

RECURSIVE Renumbered(_, _, _)
\* The range r in the line numbering after the edits from the j-th on: an
\* edit that lies entirely above it and inserts n lines moves it down by n
\* (up by n if it deletes n lines), an edit that lies entirely below it
\* leaves it where it is; Unclaimed if an edit overlaps it.
Renumbered(r, edits, j) ==
    IF j > Len(edits) \/ r = Unclaimed THEN r
    ELSE LET above == edits[j].old_end_row <= r[1]
             below == r[2] <= edits[j].start_row
             n == edits[j].new_end_row - edits[j].old_end_row
         IN  IF above /\ ~below
             THEN Renumbered(<<r[1] + n, r[2] + n>>, edits, j + 1)
             ELSE IF below /\ ~above THEN Renumbered(r, edits, j + 1)
             ELSE Unclaimed

\* C36: when start() applies several pending edits, the line range
\* recorded for an earlier edit is afterwards expressed in the final line
\* numbering: a later edit entirely above it that inserts n lines has moved
\* it down by n, one that deletes n lines has moved it up by n, and a later
\* edit entirely below it has left it unchanged.
C36_RangesInFinalNumbering ==
    [][BatchStep =>
          \A i \in 1..Len(pending_changes) :
              \E r \in {Renumbered(<<pending_changes[i].start_row,
                                     pending_changes[i].new_end_row>>,
                                   pending_changes, i + 1)} :
                  r # Unclaimed => affected_lines'[i] = r]_vars

\* C39: every line range (a, b) delivered to a subscriber is well-formed: 0
\* <= a <= b, after any batch of pending edits with any mix of insertions
\* and deletions.
C39_RangesWellFormed ==
    \A k \in 1..Len(delivered) :
        \A i \in 1..Len(delivered[k][2][1]) :
            /\ 0 <= delivered[k][2][1][i][1]
            /\ delivered[k][2][1][i][1] <= delivered[k][2][1][i][2]

\* C39 witness: a start() has applied the replacement of line 1 and then
\* the deletion of line 0, the parse has completed, and the subscriber was
\* given the moved range of the first edit and the empty range of the
\* second.
C39_Witness ==
    /\ Len(applied) = 2
    /\ Len(delivered) = 1
    /\ SubSeq(delivered[1][2][1], 1, 2) = << <<2, 3>>, <<0, 0>> >>

RECURSIVE joined_len(_)
\* len('\n'.join(lines).encode('utf-8')) for the buffer's lines b: the
\* length of the bytes start() hands to the engine.
joined_len(b) ==
    IF b = <<>> THEN 0
    ELSE IF Len(b) = 1 THEN utf8_len(b[1])
    ELSE utf8_len(Head(b)) + 1 + joined_len(Tail(b))

\* C37: every edit's byte offsets lie within the text that is parsed: for
\* the edit handle_changes builds, start_byte <= old_end_byte, start_byte
\* <= new_end_byte, and new_end_byte is at most the length of the bytes (the
\* lines joined with '\n') the next start() hands to the engine, for edits
\* that touch the buffer's last line too.
C37_EditWithinParsedBytes ==
    \A k \in 1..Len(forwarded) :
        /\ forwarded[k].start_byte <= forwarded[k].old_end_byte
        /\ forwarded[k].start_byte <= forwarded[k].new_end_byte
        /\ forwarded[k].new_end_byte <= joined_len(text)

\* What a subscriber reads in the list it was handed at a parse completion
\* and has kept: parse_done_callback is called with the list object
\* self.affected_lines itself and handle_parse_complete hands this object
\* on to every callback, so it reads the controller's affected_lines.
kept_list == affected_lines

\* C38: the changed-range list handed to a subscriber at a parse completion
\* is not modified by the controller afterwards: after the handler that
\* runs next (a later start() or completion), a subscriber that has kept
\* the list still reads the ranges it was given.
C38_HandedListNotModified ==
    [][(notes # <<>> /\ delivered # <<>>) =>
          kept_list' = delivered[1][2][1]]_vars

====
